---- MODULE Spec2Model ----
(***************************************************************************)
(* A model of the desktopfile package: the line parser OpenWithOptions     *)
(* (file.go), the File/Group/Entry accessors and mutators, and the locale  *)
(* matching of Entry.ValueAtLocale.                                        *)
(*                                                                         *)
(* Go strings are modelled as sequences of one-character strings, so that  *)
(* trimming, slicing and concatenation are computed as the code computes   *)
(* them.  Go maps are functions; a map[K]*V whose values are only reached  *)
(* through the map is a function to records.                               *)
(***************************************************************************)
EXTENDS Integers, Sequences, FiniteSets, TLC

\* ------------------------------------------------------------------ bounds
\* Longest input, in lines, that the parser is run on.
MaxLines == 4
\* Longest input, in lines, of a File that the accessors are then called on.
MaxApiLines == 2
\* Number of accessor/mutator calls made on a parsed File.
MaxOps == 3
\* Number of AddLocale calls made on the Entry that ValueAtLocale is run on.
MaxVariants == 3
\* Longest locale string LocaleFromString is run on.
MaxLocaleLen == 5
\* Longest Value IsArray and AsArray are run on.
MaxValueLen == 5
\* Most lines of an input whose Groups are written out with String().
MaxStringLines == 3
\* Longest key segment of a key line.
MaxKeyLen == 4
\* Most lines of an input whose Groups and Entries are then edited.
MaxOrderLines == 2

\* ------------------------------------------------------- strings (package strings)
\* A pointer is NIL or Ptr(x); Deref reads through it.
NIL == <<>>
Ptr(x) == <<x>>
Deref(p) == p[1]

IsSpace(c) == c \in {" ", "\t", "\n", "\r"}

\* strings.HasPrefix / strings.HasSuffix
HasPrefix(s, p) == Len(s) >= Len(p) /\ SubSeq(s, 1, Len(p)) = p
HasSuffix(s, p) == Len(s) >= Len(p) /\ SubSeq(s, Len(s) - Len(p) + 1, Len(s)) = p

\* strings.TrimPrefix / strings.TrimSuffix
TrimPrefix(s, p) == IF HasPrefix(s, p) THEN SubSeq(s, Len(p) + 1, Len(s)) ELSE s
TrimSuffix(s, p) == IF HasSuffix(s, p) THEN SubSeq(s, 1, Len(s) - Len(p)) ELSE s

\* strings.Index for a one-character needle: 0-based, -1 when absent.
Index(s, c) ==
    IF \E i \in 1..Len(s) : s[i] = c
    THEN (CHOOSE i \in 1..Len(s) : s[i] = c /\ \A j \in 1..(i - 1) : s[j] # c) - 1
    ELSE -1

\* strings.Contains for a one-character needle.
Contains(s, c) == Index(s, c) # -1

\* strings.TrimSpace
TrimSpace(s) ==
    IF \A i \in 1..Len(s) : IsSpace(s[i]) THEN <<>>
    ELSE LET lo == CHOOSE i \in 1..Len(s) :
                       ~IsSpace(s[i]) /\ \A j \in 1..(i - 1) : IsSpace(s[j])
             hi == CHOOSE i \in 1..Len(s) :
                       ~IsSpace(s[i]) /\ \A j \in (i + 1)..Len(s) : IsSpace(s[j])
         IN  SubSeq(s, lo, hi)

\* The Go slice expression s[lo:hi] (0-based, half open); it panics unless
\* 0 <= lo <= hi <= len(s).
SliceOK(s, lo, hi) == 0 <= lo /\ lo <= hi /\ hi <= Len(s)
Slice(s, lo, hi) == SubSeq(s, lo + 1, hi)

\* ------------------------------------------------------------ maps
Put(m, k, v) == [x \in DOMAIN m \cup {k} |-> IF x = k THEN v ELSE m[x]]
Delete(m, k) == [x \in DOMAIN m \ {k} |-> m[x]]
EmptyMap == <<>>

\* The elements of a sequence.
Range(s) == {s[i] : i \in 1..Len(s)}

\* Removes the first occurrence of x from the slice s, as the loops of
\* RemoveGroup and RemoveEntry do.
RemoveFirst(s, x) ==
    IF x \in Range(s)
    THEN LET i == CHOOSE n \in 1..Len(s) : s[n] = x /\ \A j \in 1..(n - 1) : s[j] # x
         IN  SubSeq(s, 1, i - 1) \o SubSeq(s, i + 1, Len(s))
    ELSE s

\* ------------------------------------------------------------ Locale
Locale(lang, country, modifier) ==
    [Language |-> lang, Country |-> country, Modifier |-> modifier]

\* LocaleFromString evaluates the slice expression locale[underInd+1 : atInd]
\* when both separators are present; every other slice it takes is in range.
LocaleFromStringOK(locale) ==
    LET underInd == Index(locale, "_")
        atInd    == Index(locale, "@")
    IN  (underInd # -1 /\ atInd # -1) => SliceOK(locale, underInd + 1, atInd)

LocaleFromString(locale) ==
    LET underInd == Index(locale, "_")
        atInd    == Index(locale, "@")
        n        == Len(locale)
        out == IF underInd = -1 /\ atInd = -1 THEN Locale(locale, <<>>, <<>>)
               ELSE IF underInd = -1
                    THEN Locale(Slice(locale, 0, atInd), <<>>, Slice(locale, atInd + 1, n))
               ELSE IF atInd = -1
                    THEN Locale(Slice(locale, 0, underInd), Slice(locale, underInd + 1, n), <<>>)
               ELSE Locale(Slice(locale, 0, underInd),
                           Slice(locale, underInd + 1, atInd),
                           Slice(locale, atInd, n))
        dotInd == Index(out.Country, ".")
    IN  IF dotInd # -1
        THEN [out EXCEPT !.Country = Slice(out.Country, 0, dotInd)]
        ELSE out

\* strings.ToLower / strings.ToUpper, on the letters of the model's strings.
ToLowerChar(c) == CASE c = "A" -> "a" [] c = "B" -> "b" [] OTHER -> c
ToUpperChar(c) == CASE c = "a" -> "A" [] c = "b" -> "B" [] OTHER -> c
ToLower(s) == [i \in 1..Len(s) |-> ToLowerChar(s[i])]
ToUpper(s) == [i \in 1..Len(s) |-> ToUpperChar(s[i])]

\* Lines 274-283: Locale.String.
LocaleString(l) ==
    ToLower(l.Language)
        \o (IF l.Country # <<>> THEN <<"_">> \o ToUpper(l.Country) ELSE <<>>)
        \o (IF l.Modifier # <<>> THEN <<"@">> \o ToUpper(l.Modifier) ELSE <<>>)

\* ------------------------------------------------------------ data model
\* Options.  DefaultLocale is NIL or a Locale.
Options(defLoc, join, ignore, groups) ==
    [DefaultLocale |-> defLoc, AllowDuplicateKeysJoin |-> join,
     AllowDuplicateKeysIgnore |-> ignore, AllowDuplicateGroups |-> groups]

LocaleValue(value, comment) == [Value |-> value, Comment |-> comment]

\* Entry.  parent is NIL or the Group the Entry points to; of that Group only
\* its own parent field is ever read through the pointer, so the pointer is
\* kept as the record [parent |-> ...].
Entry(parent, value, comment) ==
    [parent |-> parent, locales |-> EmptyMap, Comment |-> comment,
     Value |-> value, localeOrder |-> <<>>]

\* Group.  parent is "nil", "file" (the File itself) or "filecopy" (the copy
\* of the File that a value-receiver method works on).
Group(parent) ==
    [parent |-> parent, entries |-> EmptyMap, Comment |-> <<>>, entryOrder |-> <<>>]

GroupPtr(g) == [parent |-> g.parent]

\* ------------------------------------------------------------ input
\* The raw lines the reader can deliver (without the line terminator).
LComment == <<"#", "c">>
LGroupG  == <<"[", "G", "]">>
LGroupH  == <<"[", "H", "]">>
LKeyA    == <<"N", "=", "A">>
LKeyB    == <<" ", "N", " ", "=", " ", "B">>
LLocC    == <<"N", "[", "e", "n", "]", "=", "C">>
LLocD    == <<"N", "[", "e", "n", "]", "=", "D">>
LBad     == <<"x">>
Lines == {LComment, LGroupG, LGroupH, LKeyA, LKeyB, LLocC, LLocD, LBad}

EnLocale == Locale(<<"e", "n">>, <<>>, <<>>)
DefaultLocales == {NIL, Ptr(EnLocale)}

\* ------------------------------------------------------------ state
VARIABLES
    op,             \* the Options passed to OpenWithOptions
    lines,          \* the raw lines read so far, in order
    lineNum,        \* OpenWithOptions: lineNum
    curGroup,       \* OpenWithOptions: curGroup, NIL or Ptr(group name)
    commentTemp,    \* OpenWithOptions: commentTemp
    rawMap,         \* File.rawMap
    groupOrder,     \* File.groupOrder
    EndingComment,  \* File.EndingComment
    status,         \* "parsing", "ok" (a File was returned) or "error"
    err,            \* the error returned: its kind and line number
    dGroup,         \* NIL or the Group GetGroup last made for an absent name
    dEntry,         \* NIL or the Entry GetEntry last made for an absent key
    nOps,           \* number of accessor and mutator calls made on the File
    panicked,       \* whether a call dereferenced a nil pointer
    ret,            \* NIL or the Value GetValue last returned
    entry,          \* an Entry that ValueAtLocale is called on
    answer,         \* NIL or the last ValueAtLocale call: its query and result
    arg,            \* the string a function of the package is called on
    out             \* the last call on arg: its name, whether it panicked, its results

parserVars == <<op, lines, lineNum, curGroup, commentTemp, rawMap, groupOrder,
                EndingComment, status, err>>

apiVars == <<dGroup, dEntry, nOps, panicked, ret>>

localeVars == <<entry, answer>>

callVars == <<arg, out>>

vars == <<parserVars, apiVars, localeVars, callVars>>

NoCall == [call |-> "none", panic |-> FALSE, val |-> <<>>]

NoError == [kind |-> "none", line |-> 0]

\* ------------------------------------------------------------ OpenWithOptions
\* Line 62: a comment or blank line.
IsCommentLine(line) == HasPrefix(line, <<"#">>) \/ line = <<>>

\* Line 70: a group header.
IsGroupHeader(line) == HasPrefix(line, <<"[">>) /\ HasSuffix(line, <<"]">>)

\* Line 71: the name of the group of a header line.
GroupName(line) == TrimSpace(TrimSuffix(TrimPrefix(line, <<"[">>), <<"]">>))

\* Lines 63-67: a comment line joins the pending comment.
AppendComment(pending, line) ==
    IF HasSuffix(pending, <<"\n">>) THEN pending \o line
    ELSE pending \o <<"\n">> \o line

\* AllowDuplicateKeysIgnore tested without its negation.
DuplicateKeyPolicyIgnoreFails(o) ==
    IF o.AllowDuplicateKeysJoin THEN "join"
    ELSE IF o.AllowDuplicateKeysIgnore THEN "error"
    ELSE "ignore"

\* AllowDuplicateKeysIgnore tested before AllowDuplicateKeysJoin.
DuplicateKeyPolicyIgnoreFirst(o) ==
    IF o.AllowDuplicateKeysIgnore THEN "ignore"
    ELSE IF o.AllowDuplicateKeysJoin THEN "join"
    ELSE "error"

\* Either option joins.
DuplicateKeyPolicyAlwaysJoin(o) ==
    IF o.AllowDuplicateKeysJoin \/ o.AllowDuplicateKeysIgnore THEN "join"
    ELSE "error"

\* Lines 111-117 and 121-127: what is done with a repeated key.
DuplicateKeyPolicy(o) ==
    IF o.AllowDuplicateKeysJoin THEN "join"
    ELSE IF ~o.AllowDuplicateKeysIgnore THEN "error"
    ELSE "ignore"

\* Line 94: whether a locale is extracted from the key segment.
KeyHasLocale(key) == HasSuffix(key, <<"]">>) /\ Contains(key, "]")

\* Lines 98-118: the Entry of the key is created or, for a line without a
\* locale, updated.  Yields the Group, the pending comment and whether the
\* line is accepted.
DefaultValueStep(g, key, locale, value, pending, o) ==
    IF key \notin DOMAIN g.entries
    THEN [ok |-> TRUE,
          group |-> [g EXCEPT
              !.entries = Put(g.entries, key,
                              IF locale = NIL
                              THEN Entry(Ptr(GroupPtr(g)), value, pending)
                              ELSE Entry(Ptr(GroupPtr(g)), <<>>, <<>>)),
              !.entryOrder = Append(g.entryOrder, key)],
          pending |-> IF locale = NIL THEN <<>> ELSE pending]
    ELSE IF locale = NIL
    THEN CASE DuplicateKeyPolicy(o) = "join" ->
                [ok |-> TRUE,
                 group |-> [g EXCEPT
                     !.entries[key].Value = g.entries[key].Value \o value,
                     !.entries[key].Comment = g.entries[key].Comment \o pending],
                 pending |-> <<>>]
           [] DuplicateKeyPolicy(o) = "error" ->
                [ok |-> FALSE, group |-> g, pending |-> pending]
           [] OTHER ->
                [ok |-> TRUE, group |-> g, pending |-> pending]
    ELSE [ok |-> TRUE, group |-> g, pending |-> pending]

\* Lines 119-136: the locale variant of a line with a locale is created or
\* updated.  The Entry of the key exists by now.
LocaleValueStep(g, key, locale, value, pending, o) ==
    IF locale = NIL THEN [ok |-> TRUE, group |-> g, pending |-> pending]
    ELSE LET loc == Deref(locale)
             e   == g.entries[key]
         IN  IF loc \in DOMAIN e.locales
             THEN CASE DuplicateKeyPolicy(o) = "join" ->
                         [ok |-> TRUE,
                          group |-> [g EXCEPT
                              !.entries[key].locales[loc].Value =
                                  e.locales[loc].Value \o value,
                              !.entries[key].locales[loc].Comment =
                                  e.locales[loc].Comment \o pending],
                          pending |-> <<>>]
                    [] DuplicateKeyPolicy(o) = "error" ->
                         [ok |-> FALSE, group |-> g, pending |-> pending]
                    [] OTHER ->
                         [ok |-> TRUE, group |-> g, pending |-> pending]
             ELSE [ok |-> TRUE,
                   group |-> [g EXCEPT
                       !.entries[key].locales =
                           Put(e.locales, loc, LocaleValue(value, pending)),
                       !.entries[key].localeOrder = Append(e.localeOrder, loc)],
                   pending |-> <<>>]

\* The line number counted from 0.
FailZeroBased(kind) ==
    /\ status' = "error"
    /\ err' = [kind |-> kind, line |-> lineNum]
    /\ UNCHANGED <<curGroup, commentTemp, rawMap, groupOrder, EndingComment>>

\* return nil, errors.New(...): no File is returned.
Fail(kind) ==
    /\ status' = "error"
    /\ err' = [kind |-> kind, line |-> lineNum']
    /\ UNCHANGED <<curGroup, commentTemp, rawMap, groupOrder, EndingComment>>

\* A repeated header starts the Group afresh.
HeaderGroupFresh(m, group, pending) ==
    [Group("file") EXCEPT !.Comment = pending]

\* Lines 72-80: the Group a header line stores under its name.
HeaderGroup(m, group, pending) ==
    LET g == IF group \in DOMAIN m THEN m[group] ELSE Group("file")
    IN  [g EXCEPT !.Comment = g.Comment \o pending]

\* Lines 62-69.
CommentLine(line) ==
    /\ IsCommentLine(line)
    /\ commentTemp' = AppendComment(commentTemp, line)
    /\ UNCHANGED <<curGroup, rawMap, groupOrder, EndingComment, status, err>>

\* Lines 70-84.
GroupHeader(line) ==
    /\ ~IsCommentLine(line)
    /\ IsGroupHeader(line)
    /\ LET group == GroupName(line)
       IN  IF group \in DOMAIN rawMap /\ ~op.AllowDuplicateGroups
           THEN Fail("DuplicateGroup")
           ELSE /\ rawMap' = Put(rawMap, group, HeaderGroup(rawMap, group, commentTemp))
                /\ commentTemp' = <<>>
                /\ curGroup' = Ptr(group)
                /\ UNCHANGED <<groupOrder, EndingComment, status, err>>

\* Lines 85-136.
KeyLine(line) ==
    /\ ~IsCommentLine(line)
    /\ ~IsGroupHeader(line)
    /\ LET equLoc == Index(line, "=")
       IN  IF equLoc = -1 THEN Fail("Malformed")
           ELSE IF curGroup = NIL THEN Fail("KeyBeforeGroup")
           ELSE
           LET rawKey == TrimSpace(Slice(line, 0, equLoc))
               value  == TrimSpace(Slice(line, equLoc + 1, Len(line)))
               brack  == Index(rawKey, "[")
           IN  IF KeyHasLocale(rawKey) /\ ~SliceOK(rawKey, 0, brack)
               THEN Fail("Panic")
               ELSE IF KeyHasLocale(rawKey)
                       /\ ~LocaleFromStringOK(Slice(rawKey, brack + 1, Len(rawKey) - 1))
               THEN Fail("Panic")
               ELSE
               LET locale == IF KeyHasLocale(rawKey)
                             THEN Ptr(LocaleFromString(
                                        Slice(rawKey, brack + 1, Len(rawKey) - 1)))
                             ELSE NIL
                   key == IF KeyHasLocale(rawKey)
                          THEN TrimSpace(Slice(rawKey, 0, brack))
                          ELSE rawKey
                   name == Deref(curGroup)
                   s1 == DefaultValueStep(rawMap[name], key, locale, value,
                                          commentTemp, op)
                   s2 == LocaleValueStep(s1.group, key, locale, value,
                                         s1.pending, op)
               IN  IF ~s1.ok \/ ~s2.ok THEN Fail("DuplicateKey")
                   ELSE /\ rawMap' = [rawMap EXCEPT ![name] = s2.group]
                        /\ commentTemp' = s2.pending
                        /\ UNCHANGED <<curGroup, groupOrder, EndingComment,
                                       status, err>>

\* Lines 52-61: the reader delivers one more line, which is trimmed and
\* handled.
ReadLine(raw) ==
    /\ status = "parsing"
    /\ lines' = Append(lines, raw)
    /\ lineNum' = lineNum + 1
    /\ LET line == TrimSuffix(TrimSpace(raw), <<"\n">>)
       IN  CommentLine(line) \/ GroupHeader(line) \/ KeyLine(line)
    /\ UNCHANGED <<op, apiVars, localeVars, callVars>>

\* Lines 55-56 and 138-141: the reader is at its end.
ReadEOF ==
    /\ status = "parsing"
    /\ lineNum' = lineNum + 1
    /\ EndingComment' = IF commentTemp # <<>> THEN commentTemp ELSE EndingComment
    /\ status' = "ok"
    /\ UNCHANGED <<op, lines, curGroup, commentTemp, rawMap, groupOrder, err>>
    /\ UNCHANGED <<apiVars, localeVars, callVars>>

\* Lines 40-50: the File and the locals of OpenWithOptions when it starts.
InitFile ==
    /\ lines = <<>>
    /\ lineNum = 0
    /\ curGroup = NIL
    /\ commentTemp = <<>>
    /\ rawMap = EmptyMap
    /\ groupOrder = <<>>
    /\ EndingComment = <<>>
    /\ status = "parsing"
    /\ err = NoError
    /\ dGroup = NIL
    /\ dEntry = NIL
    /\ nOps = 0
    /\ panicked = FALSE
    /\ ret = NIL
    /\ answer = NIL

\* OpenWithOptions starts on a reader with some Options.
Init ==
    /\ InitFile
    /\ op \in {Options(d, j, i, g) : d \in DefaultLocales,
                                     j \in BOOLEAN, i \in BOOLEAN, g \in BOOLEAN}
    /\ entry = Entry(NIL, <<>>, <<>>)
    /\ arg = <<>>
    /\ out = NoCall

Read == Len(lines) < MaxLines /\ \E raw \in Lines : ReadLine(raw)

\* OpenWithOptions on an input of at most MaxLines lines.
Next == Read \/ ReadEOF

Spec == Init /\ [][Next]_vars

\* ------------------------------------------------------------ Entry
\* The orders in which a range loop can visit the keys of a map.
Perms(S) ==
    {p \in [1..Cardinality(S) -> S] : \A i, j \in 1..Cardinality(S) : p[i] = p[j] => i = j}

\* Lines 393-419: Entry.ValueAtLocale, for the order in which the range loop
\* visits e.locales.  matchedLocal = &i points at the loop variable: when the
\* build gives the loop one variable for all iterations (shared) it reads the
\* key visited last, when each iteration has its own it reads the key
\* remembered.
RECURSIVE ValueAtLocaleFrom(_, _, _, _, _, _)
ValueAtLocaleFrom(e, l, order, shared, k, st) ==
    IF k > Len(order)
    THEN IF st.matchedLocal = NIL THEN e.Value
         ELSE IF shared THEN e.locales[order[Len(order)]].Value
         ELSE e.locales[Deref(st.matchedLocal)].Value
    ELSE LET i   == order[k]
             st1 == IF ~st.matchedLang
                    THEN [st EXCEPT !.matchedLang = TRUE, !.matchedLocal = Ptr(i)]
                    ELSE st
             st2 == IF ~st1.matchedCountry
                    THEN [st1 EXCEPT !.matchedCountry = TRUE, !.matchedLocal = Ptr(i)]
                    ELSE st1
         IN  IF l.Language # i.Language
             THEN ValueAtLocaleFrom(e, l, order, shared, k + 1, st)
             ELSE IF l.Country # i.Country
             THEN ValueAtLocaleFrom(e, l, order, shared, k + 1, st1)
             ELSE IF l.Modifier = i.Modifier THEN e.locales[i].Value
             ELSE ValueAtLocaleFrom(e, l, order, shared, k + 1, st2)

ValueAtLocale(e, l, order, shared) ==
    ValueAtLocaleFrom(e, l, order, shared, 1,
        [matchedLang |-> FALSE, matchedCountry |-> FALSE, matchedLocal |-> NIL])

\* Line 424: GetValue reads e.parent.parent.Options.
GetValuePanics(e) ==
    e.parent = NIL \/ Deref(e.parent).parent = "nil"

\* Lines 423-428: Entry.GetValue.
GetValue(e, o, order, shared) ==
    IF o.DefaultLocale # NIL
    THEN ValueAtLocale(e, Deref(o.DefaultLocale), order, shared)
    ELSE e.Value

\* Lines 438-445: Entry.AddLocale; yields the Entry afterwards.
AddLocale(e, loc) ==
    IF loc \in DOMAIN e.locales THEN e
    ELSE [e EXCEPT !.locales = Put(e.locales, loc, LocaleValue(<<>>, <<>>)),
                   !.localeOrder = Append(e.localeOrder, loc)]

\* ------------------------------------------------------------ Group
\* Lines 456-463: Group.HasEntry.
HasEntry(g, key) == \E name \in DOMAIN g.entries : name = key

\* The Entry returned for an absent key has no parent.
GetEntryZero(g, key) ==
    IF key \in DOMAIN g.entries THEN g.entries[key]
    ELSE Entry(NIL, <<>>, <<>>)

\* Lines 467-476: Group.GetEntry; yields the Entry returned.  The receiver is
\* a copy of the Group, which the new Entry points to.
GetEntry(g, key) ==
    IF key \in DOMAIN g.entries THEN g.entries[key]
    ELSE Entry(Ptr(GroupPtr(g)), <<>>, <<>>)

\* The key is appended to entryOrder also when the Group has it.
AddEntryAppends(g, key) ==
    [g EXCEPT !.entries = Put(g.entries, key,
                              IF key \in DOMAIN g.entries THEN g.entries[key]
                              ELSE Entry(Ptr(GroupPtr(g)), <<>>, <<>>)),
              !.entryOrder = Append(g.entryOrder, key)]

\* Lines 482-493: Group.AddEntry; yields the Group afterwards.
AddEntry(g, key) ==
    IF key \in DOMAIN g.entries THEN g
    ELSE [g EXCEPT !.entries = Put(g.entries, key, Entry(Ptr(GroupPtr(g)), <<>>, <<>>)),
                   !.entryOrder = Append(g.entryOrder, key)]

\* Lines 496-504: Group.RemoveEntry; yields the Group afterwards.
RemoveEntry(g, key) ==
    [g EXCEPT !.entries = Delete(g.entries, key),
              !.entryOrder = RemoveFirst(g.entryOrder, key)]

\* ------------------------------------------------------------ File
DesktopEntry == <<"D", "e", "s", "k", "t", "o", "p", " ", "E", "n", "t", "r", "y">>

\* The File's map and order, and the Group a method returns.
FileResult(m, order, g) == [rawMap |-> m, groupOrder |-> order, group |-> g]

\* The Group made is returned without being stored in the map.
DefaultGroupNotStored(m, order) ==
    IF DesktopEntry \in DOMAIN m THEN FileResult(m, order, m[DesktopEntry])
    ELSE FileResult(m, order, Group("filecopy"))

\* Lines 146-155: File.DefaultGroup.  The receiver is a copy of the File that
\* shares its map.
DefaultGroup(m, order) ==
    IF DesktopEntry \in DOMAIN m THEN FileResult(m, order, m[DesktopEntry])
    ELSE FileResult(Put(m, DesktopEntry, Group("filecopy")), order, Group("filecopy"))

\* Lines 158-161: File.HasGroup.
HasGroup(m, name) == name \in DOMAIN m

\* The Group made for an absent name is stored in the map.
GetGroupStores(m, order, name) ==
    IF name \in DOMAIN m THEN FileResult(m, order, m[name])
    ELSE FileResult(Put(m, name, Group("filecopy")), order, Group("filecopy"))

\* Lines 165-173: File.GetGroup.
GetGroup(m, order, name) ==
    IF name \in DOMAIN m THEN FileResult(m, order, m[name])
    ELSE FileResult(m, order, Group("filecopy"))

\* Lines 177-187: File.AddGroup.
AddGroup(m, order, name) ==
    IF name \in DOMAIN m THEN FileResult(m, order, m[name])
    ELSE FileResult(Put(m, name, Group("file")), order, Group("file"))

\* Lines 190-198: File.RemoveGroup.
RemoveGroup(m, order, name) ==
    FileResult(Delete(m, name), RemoveFirst(order, name), Group("nil"))

\* ------------------------------------------------------------ calls on a parsed File
ApiGroupNames == {<<"G">>, DesktopEntry}
ApiKeys == {<<"N">>}
ApiLocales == {EnLocale}

\* A call can be made once OpenWithOptions has returned a File.
CanCall == status = "ok" /\ nOps < MaxOps /\ ~panicked

Called == nOps' = nOps + 1

frame == <<op, lines, lineNum, curGroup, commentTemp, EndingComment, status, err,
           localeVars, callVars>>

\* f.AddGroup(name)
AddGroupCall(name) ==
    /\ CanCall /\ Called
    /\ LET r == AddGroup(rawMap, groupOrder, name)
       IN  rawMap' = r.rawMap /\ groupOrder' = r.groupOrder
    /\ UNCHANGED <<frame, dGroup, dEntry, panicked, ret>>

\* f.RemoveGroup(name)
RemoveGroupCall(name) ==
    /\ CanCall /\ Called
    /\ LET r == RemoveGroup(rawMap, groupOrder, name)
       IN  rawMap' = r.rawMap /\ groupOrder' = r.groupOrder
    /\ UNCHANGED <<frame, dGroup, dEntry, panicked, ret>>

\* f.DefaultGroup()
DefaultGroupCall ==
    /\ CanCall /\ Called
    /\ LET r == DefaultGroup(rawMap, groupOrder)
       IN  rawMap' = r.rawMap /\ groupOrder' = r.groupOrder
    /\ UNCHANGED <<frame, dGroup, dEntry, panicked, ret>>

\* f.DefaultGroup().AddEntry(key).  The Group returned is the one the map holds
\* under "Desktop Entry" after the call, when it holds one.
DefaultGroupAddEntryCall(key) ==
    /\ CanCall /\ Called
    /\ LET r == DefaultGroup(rawMap, groupOrder)
       IN  /\ groupOrder' = r.groupOrder
           /\ IF DesktopEntry \in DOMAIN r.rawMap
              THEN /\ rawMap' = [r.rawMap EXCEPT ![DesktopEntry] = AddEntry(r.group, key)]
                   /\ UNCHANGED dGroup
              ELSE /\ rawMap' = r.rawMap
                   /\ dGroup' = Ptr(AddEntry(r.group, key))
    /\ UNCHANGED <<frame, dEntry, panicked, ret>>

\* g := f.GetGroup(name); for an absent name the caller keeps the Group made.
GetGroupCall(name) ==
    /\ CanCall /\ Called
    /\ LET r == GetGroup(rawMap, groupOrder, name)
       IN  /\ rawMap' = r.rawMap /\ groupOrder' = r.groupOrder
           /\ dGroup' = IF name \in DOMAIN rawMap THEN dGroup ELSE Ptr(r.group)
    /\ UNCHANGED <<frame, dEntry, panicked, ret>>

\* The Groups a caller can hold: NIL stands for the one kept in dGroup, Ptr(name)
\* for the one registered under name.
GroupTargets ==
    {Ptr(name) : name \in DOMAIN rawMap \cap ApiGroupNames}
        \cup (IF dGroup # NIL THEN {NIL} ELSE {})

TargetGroup(t) == IF t = NIL THEN Deref(dGroup) ELSE rawMap[Deref(t)]

SetTargetGroup(t, g) ==
    IF t = NIL
    THEN dGroup' = Ptr(g) /\ UNCHANGED rawMap
    ELSE rawMap' = [rawMap EXCEPT ![Deref(t)] = g] /\ UNCHANGED dGroup

\* g.AddEntry(key)
AddEntryCall(t, key) ==
    /\ CanCall /\ Called
    /\ SetTargetGroup(t, AddEntry(TargetGroup(t), key))
    /\ UNCHANGED <<frame, groupOrder, dEntry, panicked, ret>>

\* g.RemoveEntry(key)
RemoveEntryCall(t, key) ==
    /\ CanCall /\ Called
    /\ SetTargetGroup(t, RemoveEntry(TargetGroup(t), key))
    /\ UNCHANGED <<frame, groupOrder, dEntry, panicked, ret>>

\* e := g.GetEntry(key); for an absent key the caller keeps the Entry made.
GetEntryCall(t, key) ==
    /\ CanCall /\ Called
    /\ dEntry' = IF HasEntry(TargetGroup(t), key) THEN dEntry
                 ELSE Ptr(GetEntry(TargetGroup(t), key))
    /\ UNCHANGED <<frame, rawMap, groupOrder, dGroup, panicked, ret>>

\* e.AddLocale(loc) on the Entry kept in dEntry
AddLocaleDetachedCall(loc) ==
    /\ CanCall /\ Called
    /\ dEntry # NIL
    /\ dEntry' = Ptr(AddLocale(Deref(dEntry), loc))
    /\ UNCHANGED <<frame, rawMap, groupOrder, dGroup, panicked, ret>>

\* g.GetEntry(key).AddLocale(loc) on an Entry of a Group
AddLocaleCall(t, key, loc) ==
    /\ CanCall /\ Called
    /\ HasEntry(TargetGroup(t), key)
    /\ SetTargetGroup(t, [TargetGroup(t) EXCEPT
                              !.entries[key] = AddLocale(GetEntry(TargetGroup(t), key), loc)])
    /\ UNCHANGED <<frame, groupOrder, dEntry, panicked, ret>>

\* f.GetGroup(name).GetEntry(key).GetValue()
GetValueChainCall(name, key) ==
    /\ CanCall /\ Called
    /\ LET r == GetGroup(rawMap, groupOrder, name)
           e == GetEntry(r.group, key)
       IN  /\ rawMap' = r.rawMap /\ groupOrder' = r.groupOrder
           /\ panicked' = GetValuePanics(e)
           /\ IF GetValuePanics(e) THEN ret' = ret
              ELSE \E order \in Perms(DOMAIN e.locales), shared \in BOOLEAN :
                       ret' = Ptr(GetValue(e, op, order, shared))
    /\ UNCHANGED <<frame, dGroup, dEntry>>

ReadApi == Len(lines) < MaxApiLines /\ \E raw \in Lines : ReadLine(raw)

FileCall ==
    \E name \in ApiGroupNames :
        AddGroupCall(name) \/ RemoveGroupCall(name) \/ GetGroupCall(name)

GroupCall ==
    \E t \in GroupTargets, key \in ApiKeys :
        AddEntryCall(t, key) \/ RemoveEntryCall(t, key) \/ GetEntryCall(t, key)

DefaultGroupChainCall == \E key \in ApiKeys : DefaultGroupAddEntryCall(key)

EntryCall ==
    \E loc \in ApiLocales :
        \/ AddLocaleDetachedCall(loc)
        \/ \E t \in GroupTargets, key \in ApiKeys : AddLocaleCall(t, key, loc)

ChainCall == \E name \in ApiGroupNames, key \in ApiKeys : GetValueChainCall(name, key)

\* OpenWithOptions on an input of at most MaxApiLines lines, and then calls
\* on the File it returned.
NextAPI ==
    \/ ReadApi \/ ReadEOF \/ FileCall \/ DefaultGroupCall \/ GroupCall \/ EntryCall
    \/ ChainCall \/ DefaultGroupChainCall

SpecAPI == Init /\ [][NextAPI]_vars

\* ------------------------------------------------------------ ValueAtLocale on an Entry
\* Locale strings, for variants and for queries.
SEn    == <<"e", "n">>
SEnUS  == <<"e", "n", "_", "U", "S">>
SEnUSx == <<"e", "n", "_", "U", "S", "@", "x">>
SEnGB  == <<"e", "n", "_", "G", "B">>
SFr    == <<"f", "r">>
LocaleStrs == {SEn, SEnUS, SEnUSx, SEnGB, SFr}

Generic  == <<"G", "e", "n", "e", "r", "i", "c">>
American == <<"A", "m", "e", "r", "i", "c", "a", "n">>
English  == <<"E", "n", "g", "l", "i", "s", "h">>
VariantValues == {American, English}

\* An Entry with a default value and no variants yet.
InitLocale ==
    /\ InitFile
    /\ op = Options(NIL, FALSE, FALSE, FALSE)
    /\ entry = Entry(NIL, Generic, <<>>)
    /\ arg = <<>>
    /\ out = NoCall

\* e.AddLocale(LocaleFromString(str)).Value = v
SetLocaleValue(str, v) ==
    /\ LocaleFromStringOK(str)
    /\ LET loc == LocaleFromString(str)
       IN  /\ loc \in DOMAIN entry.locales \/ Len(entry.localeOrder) < MaxVariants
           /\ entry' = [AddLocale(entry, loc) EXCEPT !.locales[loc].Value = v]
    /\ answer' = NIL
    /\ UNCHANGED <<parserVars, apiVars, callVars>>

\* e.ValueAtLocale(*LocaleFromString(str))
Query(str) ==
    /\ LocaleFromStringOK(str)
    /\ \E order \in Perms(DOMAIN entry.locales), shared \in BOOLEAN :
           answer' = Ptr([query |-> LocaleFromString(str),
                          value |-> ValueAtLocale(entry, LocaleFromString(str),
                                                  order, shared)])
    /\ UNCHANGED <<parserVars, apiVars, entry, callVars>>

NextLocale ==
    \/ \E str \in LocaleStrs, v \in VariantValues : SetLocaleValue(str, v)
    \/ \E str \in LocaleStrs : Query(str)

SpecLocale == InitLocale /\ [][NextLocale]_vars

\* ------------------------------------------------------------ LocaleFromString and Locale.String
\* The strings of at most n characters of the alphabet A.
StringsUpTo(A, n) == UNION {[1..k -> A] : k \in 0..n}

LocaleAlphabet == {"a", "B", "_", "@", "."}

\* A locale string, not yet parsed.
InitLocaleString ==
    /\ InitFile
    /\ op = Options(NIL, FALSE, FALSE, FALSE)
    /\ entry = Entry(NIL, <<>>, <<>>)
    /\ arg \in StringsUpTo(LocaleAlphabet, MaxLocaleLen)
    /\ out = NoCall

\* l := LocaleFromString(arg)
LocaleFromStringCall ==
    /\ out.call = "none"
    /\ out' = IF LocaleFromStringOK(arg)
              THEN [call |-> "LocaleFromString", panic |-> FALSE,
                    val |-> <<LocaleFromString(arg)>>]
              ELSE [call |-> "LocaleFromString", panic |-> TRUE, val |-> <<>>]
    /\ UNCHANGED <<parserVars, apiVars, localeVars, arg>>

\* LocaleFromString(l.String()), for the l of the call before.
ReparseCall ==
    /\ out.call = "LocaleFromString"
    /\ ~out.panic
    /\ LET l        == out.val[1]
           rendered == LocaleString(l)
       IN  out' = IF LocaleFromStringOK(rendered)
                  THEN [call |-> "Reparse", panic |-> FALSE,
                        val |-> <<l, rendered, LocaleFromString(rendered)>>]
                  ELSE [call |-> "Reparse", panic |-> TRUE, val |-> <<l, rendered>>]
    /\ UNCHANGED <<parserVars, apiVars, localeVars, arg>>

NextLocaleString == LocaleFromStringCall \/ ReparseCall

SpecLocaleString == InitLocaleString /\ [][NextLocaleString]_vars

\* ------------------------------------------------------------ Value.IsArray and Value.AsArray
\* strings.Count(s, sub) for a non-empty sub: the occurrences of sub in s
\* that do not overlap, counted from the left.
RECURSIVE Count(_, _)
Count(s, sub) ==
    IF Len(s) < Len(sub) THEN 0
    ELSE IF HasPrefix(s, sub) THEN 1 + Count(SubSeq(s, Len(sub) + 1, Len(s)), sub)
    ELSE Count(Tail(s), sub)

\* strings.Split(s, sep) for a one-character sep.
RECURSIVE Split(_, _)
Split(s, sep) ==
    LET i == Index(s, sep)
    IN  IF i = -1 THEN <<s>>
        ELSE <<Slice(s, 0, i)>> \o Split(Slice(s, i + 1, Len(s)), sep)

IsArrayLessEq(v) == Count(v, <<"\\", ";">>) <= Count(v, <<";">>)

\* Lines 346-351: Value.IsArray.
IsArray(v) == Count(v, <<"\\", ";">>) < Count(v, <<";">>)

\* Lines 361-370: the loop of AsArray from index i (1-based here) on. An
\* element ending in a backslash is joined with the element after it and
\* looked at again; reading split[i+1] past the end of the slice panics.
RECURSIVE JoinEscaped(_, _)
JoinEscaped(split, i) ==
    IF i > Len(split) THEN [ok |-> TRUE, split |-> split]
    ELSE IF HasSuffix(split[i], <<"\\">>)
         THEN IF i + 1 > Len(split) THEN [ok |-> FALSE, split |-> split]
              ELSE JoinEscaped(
                       SubSeq(split, 1, i - 1)
                           \o <<Slice(split[i], 0, Len(split[i]) - 1) \o <<";">> \o split[i + 1]>>
                           \o SubSeq(split, i + 2, Len(split)),
                       i)
         ELSE JoinEscaped(split, i + 1)

\* Lines 355-375: Value.AsArray.
AsArray(v) ==
    LET all   == Split(v, ";")
        split == IF HasSuffix(v, <<";">>) THEN SubSeq(all, 1, Len(all) - 1) ELSE all
    IN  JoinEscaped(split, 1)

ValueAlphabet == {"a", ";", "\\"}

\* A Value, with no method called on it yet.
InitValue ==
    /\ InitFile
    /\ op = Options(NIL, FALSE, FALSE, FALSE)
    /\ entry = Entry(NIL, <<>>, <<>>)
    /\ arg \in StringsUpTo(ValueAlphabet, MaxValueLen)
    /\ out = NoCall

\* Value(arg).IsArray()
IsArrayCall ==
    /\ out.call = "none"
    /\ out' = [call |-> "IsArray", panic |-> FALSE, val |-> <<IsArray(arg)>>]
    /\ UNCHANGED <<parserVars, apiVars, localeVars, arg>>

\* Value(arg).AsArray()
AsArrayCall ==
    /\ out.call = "none"
    /\ LET r == AsArray(arg)
       IN  out' = IF r.ok
                  THEN [call |-> "AsArray", panic |-> FALSE, val |-> <<r.split>>]
                  ELSE [call |-> "AsArray", panic |-> TRUE, val |-> <<>>]
    /\ UNCHANGED <<parserVars, apiVars, localeVars, arg>>

NextValue == IsArrayCall \/ AsArrayCall

SpecValue == InitValue /\ [][NextValue]_vars

\* ------------------------------------------------------------ Group.String
\* The two characters escapeReplacer writes for "\s" (line 240): a capital A
\* with circumflex and a no-break space.
ACircumflex == "A^"
NoBreakSpace == "nbsp"

\* Line 240 and lines 290-292: Value.String, escapeReplacer.Replace. The
\* text is scanned from the left; each of the five escapes is replaced and
\* every other character is copied.
RECURSIVE ValueString(_)
ValueString(v) ==
    IF v = <<>> THEN <<>>
    ELSE IF HasPrefix(v, <<"\\", "s">>)
         THEN <<ACircumflex, NoBreakSpace>> \o ValueString(SubSeq(v, 3, Len(v)))
    ELSE IF HasPrefix(v, <<"\\", "n">>) THEN <<"\n">> \o ValueString(SubSeq(v, 3, Len(v)))
    ELSE IF HasPrefix(v, <<"\\", "t">>) THEN <<"\t">> \o ValueString(SubSeq(v, 3, Len(v)))
    ELSE IF HasPrefix(v, <<"\\", "r">>) THEN <<"\r">> \o ValueString(SubSeq(v, 3, Len(v)))
    ELSE IF HasPrefix(v, <<"\\", "\\">>) THEN <<"\\">> \o ValueString(SubSeq(v, 3, Len(v)))
    ELSE <<Head(v)>> \o ValueString(Tail(v))

\* Lines 507-510: the loop of Group.String over entryOrder.
RECURSIVE GroupStringLoop(_, _)
GroupStringLoop(g, order) ==
    IF order = <<>> THEN <<>>
    ELSE LET v == Head(order)
             e == g.entries[v]
         IN  v \o <<"=">> \o ValueString(e.Value) \o GroupStringLoop(g, Tail(order))

\* Lines 506-513: Group.String.
GroupString(g) == TrimSuffix(GroupStringLoop(g, g.entryOrder), <<"\n">>)

\* The lines bufio.Reader.ReadString('\n') delivers for text (lines 52-58):
\* the pieces between line feeds, and no line after a last line feed.
TextLines(text) ==
    LET pieces == Split(text, "\n")
    IN  IF pieces[Len(pieces)] = <<>> THEN SubSeq(pieces, 1, Len(pieces) - 1) ELSE pieces

LKeyM == <<"M", "=", "B">>

StringLines == {LGroupG, LKeyA, LKeyM, LLocC}

ReadString ==
    /\ out.call = "none"
    /\ Len(lines) < MaxStringLines
    /\ \E raw \in StringLines : ReadLine(raw)

ReadStringEOF == out.call = "none" /\ ReadEOF

\* text := f.GetGroup(name).String() on the File of a successful parse, and
\* the start of OpenWithOptions, with the same Options, on the header of the
\* group followed by text.
StringCall(name) ==
    /\ status = "ok"
    /\ out.call = "none"
    /\ HasGroup(rawMap, name)
    /\ LET g    == GetGroup(rawMap, groupOrder, name).group
           text == GroupString(g)
       IN  out' = [call |-> "String", panic |-> FALSE,
                   val |-> <<name, g, text,
                             <<(<<"[">> \o name \o <<"]">>)>> \o TextLines(text)>>]
    /\ lines' = <<>>
    /\ lineNum' = 0
    /\ curGroup' = NIL
    /\ commentTemp' = <<>>
    /\ rawMap' = EmptyMap
    /\ groupOrder' = <<>>
    /\ EndingComment' = <<>>
    /\ status' = "parsing"
    /\ err' = NoError
    /\ UNCHANGED <<op, apiVars, localeVars, arg>>

\* OpenWithOptions reads the next line of the text.
RereadLine ==
    /\ out.call = "String"
    /\ Len(lines) < Len(out.val[4])
    /\ ReadLine(out.val[4][Len(lines) + 1])

\* OpenWithOptions reaches the end of the text.
RereadEOF ==
    /\ out.call = "String"
    /\ Len(lines) = Len(out.val[4])
    /\ ReadEOF

NextString ==
    \/ ReadString \/ ReadStringEOF
    \/ \E name \in ApiGroupNames : StringCall(name)
    \/ RereadLine \/ RereadEOF

SpecString == Init /\ [][NextString]_vars

\* ------------------------------------------------------------ the key segment of a key line
KeyAlphabet == {"N", "[", "]"}

\* The line of a key segment: the segment, "=" and a value.
KeyLineOf(seg) == seg \o <<"=", "A">>

\* OpenWithOptions starts on an input of two lines: the header of G and the
\* key line of a key segment.
InitKey ==
    /\ InitFile
    /\ op \in {Options(d, j, i, g) : d \in DefaultLocales,
                                     j \in BOOLEAN, i \in BOOLEAN, g \in BOOLEAN}
    /\ entry = Entry(NIL, <<>>, <<>>)
    /\ arg \in StringsUpTo(KeyAlphabet, MaxKeyLen)
    /\ out = NoCall

ReadKeyHeader == lines = <<>> /\ ReadLine(LGroupG)

ReadKeyLine == Len(lines) = 1 /\ ReadLine(KeyLineOf(arg))

ReadKeyEOF == Len(lines) = 2 /\ ReadEOF

NextKey == ReadKeyHeader \/ ReadKeyLine \/ ReadKeyEOF

SpecKey == InitKey /\ [][NextKey]_vars

\* ------------------------------------------------------------ entryOrder and localeOrder
OrderLines == {LGroupG, LKeyA, LKeyM, LLocC}
OrderKeys == {<<"N">>, <<"M">>}
FrLocale == Locale(<<"f", "r">>, <<>>, <<>>)
OrderLocales == {EnLocale, FrLocale}

ReadOrder == Len(lines) < MaxOrderLines /\ \E raw \in OrderLines : ReadLine(raw)

\* g.AddEntry(key), g.RemoveEntry(key) and g.GetEntry(key).AddLocale(loc) on
\* the Groups of the File.
OrderCall ==
    \E t \in GroupTargets, key \in OrderKeys :
        \/ AddEntryCall(t, key)
        \/ RemoveEntryCall(t, key)
        \/ \E loc \in OrderLocales : AddLocaleCall(t, key, loc)

NextOrder == ReadOrder \/ ReadEOF \/ OrderCall

SpecOrder == Init /\ [][NextOrder]_vars

\* ------------------------------------------------------------ the input, read independently
\* What each raw line of Lines says, written down line by line.
LineKind(raw) ==
    CASE raw = LComment -> "comment"
      [] raw \in {LGroupG, LGroupH} -> "group"
      [] raw \in {LKeyA, LKeyB, LLocC, LLocD} -> "key"
      [] OTHER -> "other"

\* The group a header line names.
LineGroup(raw) == IF raw = LGroupG THEN <<"G">> ELSE <<"H">>

\* The key a key line assigns.
LineKey(raw) == <<"N">>

\* The locale variant a key line assigns: NIL for the default value.
LineLocale(raw) == IF raw \in {LLocC, LLocD} THEN Ptr(EnLocale) ELSE NIL

\* The value a key line assigns.
LineValue(raw) ==
    CASE raw = LKeyA -> <<"A">>
      [] raw = LKeyB -> <<"B">>
      [] raw = LLocC -> <<"C">>
      [] OTHER -> <<"D">>

IsKeyAt(ls, i) == LineKind(ls[i]) = "key"
IsHeaderAt(ls, i) == LineKind(ls[i]) = "group"

\* Whether a group header comes before line i.
InGroupAt(ls, i) == \E j \in 1..(i - 1) : IsHeaderAt(ls, j)

\* The group line i belongs to: the one named by the last header before it.
GroupAt(ls, i) ==
    LET j == CHOOSE n \in 1..(i - 1) :
                 IsHeaderAt(ls, n) /\ \A m \in (n + 1)..(i - 1) : ~IsHeaderAt(ls, m)
    IN  LineGroup(ls[j])

\* Line i assigns the target (group g, key k, locale l).
Assigns(ls, i, g, k, l) ==
    /\ IsKeyAt(ls, i)
    /\ InGroupAt(ls, i)
    /\ GroupAt(ls, i) = g
    /\ LineKey(ls[i]) = k
    /\ LineLocale(ls[i]) = l

\* Line i assigns a target that an earlier line has assigned already.
Repeats(ls, i) ==
    /\ IsKeyAt(ls, i)
    /\ InGroupAt(ls, i)
    /\ \E j \in 1..(i - 1) :
           Assigns(ls, j, GroupAt(ls, i), LineKey(ls[i]), LineLocale(ls[i]))

\* The values the first n lines assign to a target, concatenated in input order.
RECURSIVE Assigned(_, _, _, _, _)
Assigned(ls, n, g, k, l) ==
    IF n = 0 THEN <<>>
    ELSE Assigned(ls, n - 1, g, k, l)
             \o (IF Assigns(ls, n, g, k, l) THEN LineValue(ls[n]) ELSE <<>>)

NeitherOption == ~op.AllowDuplicateKeysJoin /\ ~op.AllowDuplicateKeysIgnore
OnlyIgnore == ~op.AllowDuplicateKeysJoin /\ op.AllowDuplicateKeysIgnore

\* The value stored for a target in the File; Absent when there is none.
Absent == <<"absent">>
Stored(g, k, l) ==
    IF g \notin DOMAIN rawMap THEN Absent
    ELSE IF k \notin DOMAIN rawMap[g].entries THEN Absent
    ELSE IF l = NIL THEN rawMap[g].entries[k].Value
    ELSE IF Deref(l) \notin DOMAIN rawMap[g].entries[k].locales THEN Absent
    ELSE rawMap[g].entries[k].locales[Deref(l)].Value

GroupNames == {<<"G">>, <<"H">>}
KeyNames == {<<"N">>}
Targets == {<<g, k, l>> : g \in GroupNames, k \in KeyNames, l \in {NIL, Ptr(EnLocale)}}

\* ------------------------------------------------------------ claims
\* C1: with neither AllowDuplicateKeysJoin nor AllowDuplicateKeysIgnore set,
\* a line that repeats, within its group, a default key or a locale variant
\* of a key makes OpenWithOptions fail with the duplicate-key error carrying
\* the 1-based number of that line.
C1_DuplicateKeyFails ==
    NeitherOption =>
        \A i \in 1..Len(lines) :
            Repeats(lines, i) =>
                status = "error" /\ err = [kind |-> "DuplicateKey", line |-> i]

C1_Witness ==
    /\ NeitherOption
    /\ lines = <<LGroupG, LKeyA, LKeyB>>
    /\ Repeats(lines, 3)
    /\ err = [kind |-> "DuplicateKey", line |-> 3]

\* C2: with AllowDuplicateKeysJoin set, whatever AllowDuplicateKeysIgnore is,
\* parsing never fails with a duplicate-key error, and the value of every
\* default key and of every locale variant is the concatenation, in input
\* order, of the values assigned to it in its group.
C2_JoinConcatenates ==
    op.AllowDuplicateKeysJoin =>
        /\ err.kind # "DuplicateKey"
        /\ status # "error" =>
               \A t \in Targets :
                   (\E i \in 1..Len(lines) : Assigns(lines, i, t[1], t[2], t[3]))
                       => Stored(t[1], t[2], t[3])
                              = Assigned(lines, Len(lines), t[1], t[2], t[3])

C2_Witness ==
    /\ op.AllowDuplicateKeysJoin
    /\ op.AllowDuplicateKeysIgnore
    /\ status = "ok"
    /\ lines = <<LGroupG, LKeyA, LKeyB, LLocC>>
    /\ Stored(<<"G">>, <<"N">>, NIL) = <<"A", "B">>
    /\ Stored(<<"G">>, <<"N">>, Ptr(EnLocale)) = <<"C">>

\* C3: with only AllowDuplicateKeysIgnore set, reading a line that repeats a
\* default key or a locale variant causes no error and leaves every stored
\* value and comment as it was.
C3_IgnoreKeepsFirst ==
    [][(OnlyIgnore /\ lines' # lines /\ Repeats(lines', Len(lines')))
          => (status' = "parsing" /\ err' = NoError /\ rawMap' = rawMap)]_vars

C3_Witness ==
    /\ OnlyIgnore
    /\ status = "ok"
    /\ lines = <<LGroupG, LKeyA, LComment, LKeyB>>
    /\ Stored(<<"G">>, <<"N">>, NIL) = <<"A">>
    /\ rawMap[<<"G">>].entries[<<"N">>].Comment = <<>>

\* C4: a default-value line is a duplicate only if an earlier line of the
\* group assigned the default value of the key: when the default value of a
\* key is assigned exactly once in a group, no duplicate is reported for that
\* line and the Entry's Value is the value assigned, also when locale-variant
\* lines of the key come before it.
C4_SingleDefaultIsNoDuplicate ==
    \A i \in 1..Len(lines) :
        (/\ IsKeyAt(lines, i) /\ InGroupAt(lines, i) /\ LineLocale(lines[i]) = NIL
         /\ \A j \in 1..Len(lines) :
                Assigns(lines, j, GroupAt(lines, i), LineKey(lines[i]), NIL) => j = i)
        => /\ err # [kind |-> "DuplicateKey", line |-> i]
           /\ status # "error" =>
                  Stored(GroupAt(lines, i), LineKey(lines[i]), NIL) = LineValue(lines[i])

\* C5: a key-assignment line that comes before any group header makes
\* OpenWithOptions fail with the key-before-group error carrying the 1-based
\* number of that line.
C5_KeyBeforeGroupFails ==
    \A i \in 1..Len(lines) :
        (IsKeyAt(lines, i) /\ \A j \in 1..(i - 1) : LineKind(lines[j]) = "comment")
            => status = "error" /\ err = [kind |-> "KeyBeforeGroup", line |-> i]

C5_Witness ==
    /\ lines = <<LComment, LKeyA>>
    /\ err = [kind |-> "KeyBeforeGroup", line |-> 2]

\* Line i is a header that names a group an earlier header has named.
RepeatsHeader(ls, i) ==
    /\ IsHeaderAt(ls, i)
    /\ \E j \in 1..(i - 1) : IsHeaderAt(ls, j) /\ LineGroup(ls[j]) = LineGroup(ls[i])

\* C6: a header that repeats a group name fails with the duplicate-group
\* error at its line when AllowDuplicateGroups is false; when it is true the
\* parse goes on, the Group keeps its entries, the pending comments are
\* appended to the Group's comment, and the keys that follow are added to
\* that Group.
C6_RepeatedHeader ==
    /\ [][(lines' # lines /\ RepeatsHeader(lines', Len(lines')))
             => LET g == LineGroup(lines'[Len(lines')])
                IN  IF ~op.AllowDuplicateGroups
                    THEN status' = "error"
                         /\ err' = [kind |-> "DuplicateGroup", line |-> Len(lines')]
                    ELSE /\ status' = "parsing"
                         /\ DOMAIN rawMap' = DOMAIN rawMap
                         /\ rawMap'[g].entries = rawMap[g].entries
                         /\ rawMap'[g].entryOrder = rawMap[g].entryOrder
                         /\ rawMap'[g].Comment = rawMap[g].Comment \o commentTemp
                         /\ curGroup' = Ptr(g)]_vars
    /\ [](status # "error" =>
             \A i \in 1..Len(lines) :
                 (IsKeyAt(lines, i) /\ InGroupAt(lines, i))
                     => Stored(GroupAt(lines, i), LineKey(lines[i]), LineLocale(lines[i]))
                            # Absent)

C6_Witness ==
    /\ op.AllowDuplicateGroups
    /\ status = "ok"
    /\ lines = <<LGroupG, LKeyA, LComment, LGroupG>>
    /\ rawMap[<<"G">>].Comment = <<"\n", "#", "c">>
    /\ Stored(<<"G">>, <<"N">>, NIL) = <<"A">>

\* C9: on a File returned by OpenWithOptions the chain
\* GetGroup(g).GetEntry(k).GetValue() completes for every g and k, and the
\* Group or Entry made for an absent g or k is detached: making it, and every
\* AddEntry, RemoveEntry and AddLocale on it, leaves the File's groups, their
\* entries and their order as they were.
C9_MissingElementsAreDetached ==
    /\ [](~panicked)
    /\ [][(dGroup' # dGroup \/ dEntry' # dEntry)
             => (rawMap' = rawMap /\ groupOrder' = groupOrder)]_vars

C9_Witness ==
    /\ status = "ok"
    /\ ~HasGroup(rawMap, DesktopEntry)
    /\ dGroup # NIL
    /\ HasEntry(Deref(dGroup), <<"N">>)
    /\ ret = Ptr(<<>>)

\* The line of the first header that names the group.
FirstHeader(ls, name) ==
    CHOOSE i \in 1..Len(ls) :
        /\ IsHeaderAt(ls, i) /\ LineGroup(ls[i]) = name
        /\ \A j \in 1..(i - 1) : ~(IsHeaderAt(ls, j) /\ LineGroup(ls[j]) = name)

\* C10: the File's groupOrder holds every group name of rawMap exactly once
\* and no other name, the names of the groups the input declared standing in
\* the order of their first headers.
C10_GroupOrderMatchesMap ==
    status = "ok" =>
        /\ Range(groupOrder) = DOMAIN rawMap
        /\ Len(groupOrder) = Cardinality(DOMAIN rawMap)
        /\ \A i, j \in 1..Len(groupOrder) :
               (/\ i < j
                /\ \E n \in 1..Len(lines) : IsHeaderAt(lines, n) /\ LineGroup(lines[n]) = groupOrder[i]
                /\ \E n \in 1..Len(lines) : IsHeaderAt(lines, n) /\ LineGroup(lines[n]) = groupOrder[j])
               => FirstHeader(lines, groupOrder[i]) < FirstHeader(lines, groupOrder[j])

\* The variants of e, in insertion order, that satisfy Match.
FirstInserted(e, Match(_)) ==
    LET n == CHOOSE k \in 1..Len(e.localeOrder) :
                 Match(e.localeOrder[k])
                 /\ \A j \in 1..(k - 1) : ~Match(e.localeOrder[j])
    IN  e.localeOrder[n]

\* The value C7 gives for the query q on the Entry e.
ExpectedAtLocale(e, q) ==
    LET Full(l)    == l = q
        Country(l) == l.Language = q.Language /\ l.Country = q.Country
        Lang(l)    == l.Language = q.Language
        Exists(Match(_)) == \E k \in 1..Len(e.localeOrder) : Match(e.localeOrder[k])
    IN  IF Exists(Full) THEN e.locales[q].Value
        ELSE IF Exists(Country) THEN e.locales[FirstInserted(e, Country)].Value
        ELSE IF Exists(Lang) THEN e.locales[FirstInserted(e, Lang)].Value
        ELSE e.Value

\* C7: ValueAtLocale(q) is a function of q and the variants in insertion
\* order: the value of the variant equal to q if there is one, else of the
\* first-inserted variant with q's Language and Country, else of the
\* first-inserted variant with q's Language, else the default Value.
C7_ValueAtLocaleByInsertionOrder ==
    answer # NIL =>
        Deref(answer).value = ExpectedAtLocale(entry, Deref(answer).query)

\* C8: with default value "Generic" and the variants en_US -> "American",
\* en -> "English" inserted in this order, the query en_US@x yields
\* "American", the query en_GB yields "English" and the query fr yields
\* "Generic".
C8_LocaleScenario ==
    (/\ answer # NIL
     /\ entry.Value = Generic
     /\ entry.localeOrder = <<LocaleFromString(SEnUS), LocaleFromString(SEn)>>
     /\ entry.locales[LocaleFromString(SEnUS)].Value = American
     /\ entry.locales[LocaleFromString(SEn)].Value = English)
    => /\ Deref(answer).query = LocaleFromString(SEnUSx) => Deref(answer).value = American
       /\ Deref(answer).query = LocaleFromString(SEnGB) => Deref(answer).value = English
       /\ Deref(answer).query = LocaleFromString(SFr) => Deref(answer).value = Generic

\* C11: DefaultGroup() returns the Group registered under "Desktop Entry" and
\* creates it when absent: after the call HasGroup("Desktop Entry") holds, a
\* later DefaultGroup() or GetGroup("Desktop Entry") returns that registered
\* Group without making another, an entry added through DefaultGroup() is
\* seen through GetGroup("Desktop Entry"), and no other group is added,
\* removed or modified.
C11_DefaultGroupRegisters ==
    /\ [][DefaultGroupCall =>
            /\ HasGroup(rawMap', DesktopEntry)
            /\ DOMAIN rawMap' = DOMAIN rawMap \cup {DesktopEntry}
            /\ \A n \in DOMAIN rawMap : rawMap'[n] = rawMap[n]
            /\ DefaultGroup(rawMap', groupOrder')
                   = FileResult(rawMap', groupOrder', rawMap'[DesktopEntry])
            /\ GetGroup(rawMap', groupOrder', DesktopEntry)
                   = FileResult(rawMap', groupOrder', rawMap'[DesktopEntry])]_vars
    /\ [][\A key \in ApiKeys :
            DefaultGroupAddEntryCall(key) =>
                /\ HasGroup(rawMap', DesktopEntry)
                /\ HasEntry(GetGroup(rawMap', groupOrder', DesktopEntry).group, key)
                /\ \A n \in DOMAIN rawMap \ {DesktopEntry} :
                       n \in DOMAIN rawMap' /\ rawMap'[n] = rawMap[n]]_vars

C11_Witness ==
    /\ status = "ok"
    /\ lines = <<LGroupG, LKeyA>>
    /\ HasGroup(rawMap, DesktopEntry)
    /\ rawMap[DesktopEntry].parent = "filecopy"
    /\ HasEntry(rawMap[DesktopEntry], <<"N">>)
    /\ Stored(<<"G">>, <<"N">>, NIL) = <<"A">>

\* C12: LocaleFromString returns a Locale for every string, also when "@"
\* comes before "_" and when parts are empty.
C12_LocaleFromStringTotal ==
    out.call = "LocaleFromString" => ~out.panic

\* C13: for a string with "_" and then "@", Language is the text before the
\* "_", Country the text between "_" and "@" up to its first ".", and
\* Modifier the text after the "@", without the "@".
C13_LocaleParts ==
    LET underInd == Index(arg, "_")
        atInd    == Index(arg, "@")
        between  == Slice(arg, underInd + 1, atInd)
    IN  (out.call = "LocaleFromString" /\ underInd # -1 /\ underInd < atInd)
        => /\ ~out.panic
           /\ out.val[1].Language = Slice(arg, 0, underInd)
           /\ out.val[1].Country =
                  (IF Contains(between, ".")
                   THEN Slice(between, 0, Index(between, "."))
                   ELSE between)
           /\ out.val[1].Modifier = Slice(arg, atInd + 1, Len(arg))

\* C14: for every string whose parsed Language is not empty, parsing the
\* String() of the parsed Locale gives the parsed Locale again, field by
\* field.
C14_ReparseIsIdentity ==
    (out.call = "Reparse" /\ out.val[1].Language # <<>>)
        => ~out.panic /\ out.val[3] = out.val[1]

\* The places of v that hold a ";" right after a backslash (escaped) and the
\* places that hold any other ";" (unescaped).
EscapedAt(v)   == {i \in 2..Len(v) : v[i] = ";" /\ v[i - 1] = "\\"}
UnescapedAt(v) == {i \in 1..Len(v) : v[i] = ";" /\ i \notin EscapedAt(v)}

\* C15, as stated: IsArray() is true exactly when the value has more
\* unescaped ";" than escaped "\;".
C15_IsArrayMoreUnescaped ==
    out.call = "IsArray"
        => (out.val[1] <=> Cardinality(UnescapedAt(arg)) > Cardinality(EscapedAt(arg)))

\* C15, amended: IsArray() is true exactly when the value has at least one
\* ";" that does not follow a backslash; so it is false for a value with no
\* ";" and for a value whose every ";" is escaped.
C15_IsArrayHasUnescaped ==
    out.call = "IsArray" => (out.val[1] <=> UnescapedAt(arg) # {})

\* One unescaped and two escaped ";": IsArray() has answered true.
C15_Witness ==
    /\ out.call = "IsArray"
    /\ arg = <<"\\", ";", "\\", ";", ";">>
    /\ out.val[1] = TRUE

\* v with every escaped "\;" written as ";".
RECURSIVE Unescape(_)
Unescape(v) ==
    IF v = <<>> THEN <<>>
    ELSE IF HasPrefix(v, <<"\\", ";">>) THEN <<";">> \o Unescape(SubSeq(v, 3, Len(v)))
    ELSE <<Head(v)>> \o Unescape(Tail(v))

\* v cut at its unescaped ";": the pieces between them, and the piece after
\* the last one unless the value ends with it.
CutAtUnescaped(v) ==
    LET cuts  == UnescapedAt(v)
        ends  == cuts \cup (IF Len(v) \in cuts THEN {} ELSE {Len(v) + 1})
        start(e) == IF \E c \in cuts : c < e
                    THEN 1 + CHOOSE c \in cuts : c < e /\ \A d \in cuts : d < e => d <= c
                    ELSE 1
        Piece(e) == Unescape(SubSeq(v, start(e), e - 1))
        RECURSIVE InOrder(_)
        InOrder(E) == IF E = {} THEN <<>>
                      ELSE LET e == CHOOSE x \in E : \A y \in E : x <= y
                           IN  <<Piece(e)>> \o InOrder(E \ {e})
    IN  InOrder(ends)

\* C16: AsArray() returns the value cut exactly at its unescaped ";": as many
\* elements as unescaped ";", one more if the value does not end with one,
\* and each escaped "\;" a ";" inside one element.
C16_AsArraySplitsAtUnescaped ==
    out.call = "AsArray"
        => /\ ~out.panic
           /\ Len(out.val[1]) = Cardinality(UnescapedAt(arg))
                                   + (IF Len(arg) \in UnescapedAt(arg) THEN 0 ELSE 1)
           /\ out.val[1] = CutAtUnescaped(arg)

\* C17: AsArray() returns a sequence for every value, and for a value that
\* is not an array the sequence is the whole value alone.
C17_AsArrayNeverFails ==
    out.call = "AsArray"
        => /\ ~out.panic
           /\ ~IsArray(arg) => out.val[1] = <<arg>>

\* The comment lines after the last header or key line of ls, as text: each
\* on a line of its own.
RECURSIVE TrailingComments(_)
TrailingComments(ls) ==
    IF ls = <<>> \/ LineKind(ls[Len(ls)]) # "comment" THEN <<>>
    ELSE TrailingComments(SubSeq(ls, 1, Len(ls) - 1))
             \o <<"\n">> \o TrimSpace(ls[Len(ls)])

\* C18: under every Options, once a header or key line has been processed no
\* comment is left pending (the comments above it are stored with its Group,
\* Entry or LocaleValue), and a successful parse has in EndingComment only the
\* comment lines that come after the last header or key line.
C18_CommentsGoToNextElement ==
    /\ (status = "parsing" /\ lines # <<>>
            /\ LineKind(lines[Len(lines)]) \in {"group", "key"})
           => commentTemp = <<>>
    /\ status = "ok" => EndingComment = TrailingComments(lines)

\* The rule line i of ls breaks, "none" when it breaks none.
Violation(ls, i) ==
    CASE LineKind(ls[i]) = "other" -> "Malformed"
      [] IsKeyAt(ls, i) /\ ~InGroupAt(ls, i) -> "KeyBeforeGroup"
      [] RepeatsHeader(ls, i) /\ ~op.AllowDuplicateGroups -> "DuplicateGroup"
      [] Repeats(ls, i) /\ NeitherOption -> "DuplicateKey"
      [] OTHER -> "none"

\* C20: when OpenWithOptions returns an error, the error is the one of the
\* first line that breaks a rule and carries that line's 1-based number,
\* every line counted; the lines after it are not read.
C20_ErrorIsFirstViolation ==
    status = "error"
        => \E i \in 1..Len(lines) :
               /\ Violation(lines, i) # "none"
               /\ \A j \in 1..(i - 1) : Violation(lines, j) = "none"
               /\ err = [kind |-> Violation(lines, i), line |-> i]
               /\ i = Len(lines)

\* C19: the text Group.String() gives for a parsed Group, parsed again under
\* the header of the group, yields a Group with the same keys in the same
\* order, the same default values and the same locale variants.
C19_StringRoundTrip ==
    out.call = "String"
        => /\ status # "error"
           /\ status = "ok"
                => LET g == out.val[2]
                       h == rawMap[out.val[1]]
                   IN  /\ h.entryOrder = g.entryOrder
                       /\ \A k \in DOMAIN g.entries :
                              /\ h.entries[k].Value = g.entries[k].Value
                              /\ h.entries[k].localeOrder = g.entries[k].localeOrder
                              /\ \A l \in DOMAIN g.entries[k].locales :
                                     h.entries[k].locales[l].Value
                                         = g.entries[k].locales[l].Value

\* C21: a key line inside a group yields a locale variant exactly when its
\* key segment ends with "]" and contains "[" (the key is then the text
\* before the first "[" and the locale the text between it and the last
\* "]"); every other segment, one that ends with "]" without a "[" included,
\* is the key of a default value, and the parse does not break off.
C21_LocaleIffBrackets ==
    Len(lines) = 2
        => LET g     == rawMap[<<"G">>]
               brack == Index(arg, "[")
           IN  /\ status # "error"
               /\ IF HasSuffix(arg, <<"]">>) /\ Contains(arg, "[")
                  THEN LET key == Slice(arg, 0, brack)
                           loc == LocaleFromString(Slice(arg, brack + 1, Len(arg) - 1))
                       IN  /\ g.entryOrder = <<key>>
                           /\ g.entries[key].Value = <<>>
                           /\ g.entries[key].localeOrder = <<loc>>
                           /\ g.entries[key].locales[loc].Value = <<"A">>
                  ELSE /\ g.entryOrder = <<arg>>
                       /\ g.entries[arg].Value = <<"A">>
                       /\ g.entries[arg].localeOrder = <<>>

\* order lists every element of keys exactly once and nothing else.
ListsOnce(order, keys) ==
    /\ Range(order) = keys
    /\ \A i, j \in 1..Len(order) : order[i] = order[j] => i = j

\* after is before without the elements that are gone, followed by the new
\* elements: the elements stay in the order in which they were inserted.
KeepsInsertionOrder(before, after, keysBefore, keysAfter) ==
    LET Stays(k) == k \in keysAfter
        kept     == SelectSeq(before, Stays)
    IN  /\ Len(after) >= Len(kept)
        /\ SubSeq(after, 1, Len(kept)) = kept
        /\ \A i \in (Len(kept) + 1)..Len(after) : after[i] \notin keysBefore

\* C22: after a successful parse and any AddEntry, RemoveEntry and AddLocale
\* calls, every Group's entryOrder lists each key of entries exactly once and
\* every Entry's localeOrder lists each Locale of locales exactly once, both
\* in the order of insertion; AddEntry and AddLocale for an element that is
\* there change nothing.
C22_OrdersMatchMaps ==
    /\ [](status = "ok" =>
             \A n \in DOMAIN rawMap :
                 /\ ListsOnce(rawMap[n].entryOrder, DOMAIN rawMap[n].entries)
                 /\ \A k \in DOMAIN rawMap[n].entries :
                        ListsOnce(rawMap[n].entries[k].localeOrder,
                                  DOMAIN rawMap[n].entries[k].locales))
    /\ [][\A n \in DOMAIN rawMap \cap DOMAIN rawMap' :
              /\ KeepsInsertionOrder(rawMap[n].entryOrder, rawMap'[n].entryOrder,
                                     DOMAIN rawMap[n].entries, DOMAIN rawMap'[n].entries)
              /\ \A k \in DOMAIN rawMap[n].entries \cap DOMAIN rawMap'[n].entries :
                     KeepsInsertionOrder(rawMap[n].entries[k].localeOrder,
                                         rawMap'[n].entries[k].localeOrder,
                                         DOMAIN rawMap[n].entries[k].locales,
                                         DOMAIN rawMap'[n].entries[k].locales)]_vars
    /\ [][\A t \in GroupTargets, key \in OrderKeys :
              /\ (AddEntryCall(t, key) /\ HasEntry(TargetGroup(t), key))
                     => rawMap' = rawMap
              /\ \A loc \in OrderLocales :
                     (AddLocaleCall(t, key, loc)
                          /\ loc \in DOMAIN TargetGroup(t).entries[key].locales)
                         => rawMap' = rawMap]_vars

\* N was parsed, then M added, N removed and N added again.
C22_Witness ==
    /\ status = "ok"
    /\ lines = <<LGroupG, LKeyA>>
    /\ nOps = MaxOps
    /\ rawMap[<<"G">>].entryOrder = <<<<"M">>, <<"N">>>>

\* C23: ValueAtLocale(q) returns the Entry's default Value or the value of a
\* variant whose Language is q's Language, in whatever order the variants
\* are visited.
C23_NeverAnotherLanguage ==
    answer # NIL =>
        LET q == Deref(answer).query
            v == Deref(answer).value
        IN  \/ v = entry.Value
            \/ \E l \in DOMAIN entry.locales :
                   l.Language = q.Language /\ entry.locales[l].Value = v

====
